---- MODULE Spec2Model ----
(***************************************************************************)
(* Model of language-rfc (src/index.js): page navigation over form-feed    *)
(* delimited documents, fragment resolution, and the cache-or-download     *)
(* pipeline behind the rfc: URI opener.                                    *)
(*                                                                         *)
(* Text is modelled as sequences of one-character strings.  Rows and       *)
(* columns are zero-indexed as in the editor's API; TLA+ sequences are     *)
(* one-indexed, so row r of a document is lines[r + 1].                    *)
(*                                                                         *)
(* sel is the range most recently handed to setSelectedBufferRange and     *)
(* scroll the position most recently handed to scrollToBufferPosition.     *)
(***************************************************************************)
EXTENDS Integers, Sequences, FiniteSets, TLC

VARIABLES
    editors,          \* open text editors of the active pane, keyed by path
    active,           \* path of the active text editor
    hist,             \* the last commands run on the active editor, newest last
    rfcDirectory,     \* module-level `rfcDirectory` (tilde-expanded setting)
    downloadEnabled,  \* setting language-rfc.downloadEnabled
    downloadSource,   \* setting language-rfc.downloadSource
    files,            \* local storage: path -> bytes and the request that wrote them
    dirs,             \* directories that exist on local storage
    reqs,             \* handleURI invocations and where each one stands
    errors,           \* notifications raised through addError
    system,           \* the accounts of the machine: platform, passwd, dscl, HOME
    userList,         \* this.userList
    loads,            \* how often loadUserList has run
    calls,            \* expandPath calls and what each returned, newest last
    console           \* lines written with console.error

vars == <<editors, active, hist, rfcDirectory, downloadEnabled, downloadSource,
          files, dirs, reqs, errors, system, userList, loads, calls, console>>

edVars  == <<editors, active, hist>>
pathVars == <<system, userList, loads, calls, console>>
uriVars == <<rfcDirectory, downloadEnabled, downloadSource, files, dirs, reqs,
             errors, pathVars>>

(***************************************************************************)
(* Bounds of the model.                                                    *)
(***************************************************************************)
MaxRows == 4
MaxPageArg == 4

(***************************************************************************)
(* Plain helpers.                                                          *)
(***************************************************************************)
Min(a, b) == IF a <= b THEN a ELSE b
Max(a, b) == IF a >= b THEN a ELSE b
SetMin(S) == CHOOSE x \in S : \A y \in S : x <= y
SetMax(S) == CHOOSE x \in S : \A y \in S : x >= y

\* JavaScript numbers as far as the package uses them: an integer or NaN.
Num(v) == [finite |-> TRUE, val |-> v]
NaN == [finite |-> FALSE, val |-> 0]
isFinite(n) == n.finite

\* null and undefined, kept apart from every text.
Null == <<"null">>
Undefined == <<"undefined">>

Digits == <<"0", "1", "2", "3", "4", "5", "6", "7", "8", "9">>
IsDigit(c) == \E i \in 1..10 : Digits[i] = c
DigitVal(c) == (CHOOSE i \in 1..10 : Digits[i] = c) - 1

\* Length of the longest prefix of s[from..] made of decimal digits.
RECURSIVE DigitRun(_, _)
DigitRun(s, from) ==
    IF from <= Len(s) /\ IsDigit(s[from]) THEN 1 + DigitRun(s, from + 1) ELSE 0

RECURSIVE DigitsValue(_, _, _)
DigitsValue(s, from, n) ==
    IF n = 0 THEN 0
    ELSE 10 * DigitsValue(s, from, n - 1) + DigitVal(s[from + n - 1])

RECURSIVE SkipSpaces(_, _)
SkipSpaces(s, from) ==
    IF from <= Len(s) /\ s[from] = " " THEN SkipSpaces(s, from + 1) ELSE from

\* parseInt(s, 10): leading blanks, an optional sign, then the longest run of
\* digits; NaN when there is no digit there.  null (a cancelled prompt) is NaN.
parseInt(s) ==
    IF s = Null THEN NaN
    ELSE LET i    == SkipSpaces(s, 1)
             neg  == i <= Len(s) /\ s[i] = "-"
             sign == i <= Len(s) /\ s[i] \in {"-", "+"}
             j    == IF sign THEN i + 1 ELSE i
             n    == DigitRun(s, j)
         IN  IF n = 0 THEN NaN
             ELSE IF neg THEN Num(0 - DigitsValue(s, j, n))
             ELSE Num(DigitsValue(s, j, n))

\* Number-to-string conversion of an integer (template literals, "rfc:" + n).
RECURSIVE DecNat(_)
DecNat(n) ==
    IF n < 10 THEN <<Digits[n + 1]>> ELSE Append(DecNat(n \div 10), Digits[(n % 10) + 1])
numberToString(n) ==
    IF ~n.finite THEN <<"N", "a", "N">>
    ELSE IF n.val < 0 THEN <<"-">> \o DecNat(0 - n.val) ELSE DecNat(n.val)

(***************************************************************************)
(* The text editor as the package sees it.                                 *)
(***************************************************************************)
FF == "\f"
FFLine == <<FF>>

Point(row, column) == [row |-> row, column |-> column]
Range(a, b) == [start |-> a, end |-> b]
NoScroll == [row |-> -1, column |-> 0, center |-> FALSE]

getLastBufferRow(ed) == Len(ed.lines) - 1

\* editor.lineTextForBufferRow(row): undefined outside the buffer.
lineTextForBufferRow(ed, row) ==
    IF row >= 0 /\ row <= getLastBufferRow(ed) THEN ed.lines[row + 1] ELSE Undefined

\* selection.getBufferRowRange() of the first selection.
getBufferRowRange(ed) == {ed.sel.start.row, ed.sel.end.row}

\* editor.buffer.findAllSync(/^\f$/m): start rows of the form-feed-only
\* lines, top-down.
findAllBreaks(ed) ==
    SelectSeq([i \in 1..Len(ed.lines) |-> i - 1],
              LAMBDA r : ed.lines[r + 1] = FFLine)

(***************************************************************************)
(* Page navigation (goToLine, goToPage, prevPage, nextPage).               *)
(***************************************************************************)
\* goToLine(number, offset, editor)
goToLine(number, offset, ed) ==
    LET pos == Point(number, 0)
    IN  [ed EXCEPT !.sel    = Range(pos, pos),
                   !.scroll = [row |-> number + offset, column |-> 0,
                               center |-> FALSE]]

\* A clamp that wraps around past the last boundary instead of stopping.
clampPageWrap(number, breaks) ==
    IF Len(breaks) = 0 THEN 0 ELSE ((Max(1, number) - 1) % Len(breaks)) + 1

\* The clamp of goToPage: Math.max(1, ...) then Math.min(number, breaks.length).
clampPage(number, breaks) == Min(Max(1, number), Len(breaks))

\* goToPage(number, editor) for a numeric argument.
goToPage(number, ed) ==
    LET breaks == findAllBreaks(ed)
        n      == clampPage(number, breaks)
    IN  IF n > 1
        THEN LET linePos == Point(breaks[n - 1] + ed.rowsPerPage - 2, 0)
             IN  [ed EXCEPT !.sel    = Range(linePos, linePos),
                            !.scroll = [row |-> linePos.row, column |-> 0,
                                        center |-> FALSE]]
        ELSE LET zero == Point(0, 0)
             IN  [ed EXCEPT !.sel    = Range(zero, zero),
                            !.scroll = [row |-> 0, column |-> 0,
                                        center |-> FALSE]]

\* prevPageStart without the step off a boundary line.
prevPageStartNoStep(ed) == SetMin(getBufferRowRange(ed))

\* The row prevPage starts scanning from.
prevPageStart(ed) ==
    LET start == SetMin(getBufferRowRange(ed))
    IN  IF lineTextForBufferRow(ed, start) = FFLine THEN start - 1 ELSE start

\* A scan that stops at boundary lines only, never at the first row.
prevPageNoTop(ed) ==
    LET start == prevPageStart(ed)
        hits  == {i \in 0..start : lineTextForBufferRow(ed, i) = FFLine}
    IN  IF hits = {} THEN ed ELSE goToLine(SetMax(hits), 0, ed)

\* prevPage(event)
prevPage(ed) ==
    LET start == prevPageStart(ed)
        hits  == {i \in 0..start : i = 0 \/ lineTextForBufferRow(ed, i) = FFLine}
    IN  IF hits = {} THEN ed ELSE goToLine(SetMax(hits), 0, ed)

\* The rows nextPage's loop visits: start <= i < numRows.
nextPageRows(start, numRows) == start..(numRows - 1)

\* nextPage(event)
nextPage(ed) ==
    LET numRows == getLastBufferRow(ed)
        top     == SetMax(getBufferRowRange(ed))
        start   == IF lineTextForBufferRow(ed, top) = FFLine THEN top + 1 ELSE top
        hits    == {i \in nextPageRows(start, numRows) :
                       i >= numRows - 1 \/ lineTextForBufferRow(ed, i) = FFLine}
    IN  IF hits = {} THEN ed ELSE goToLine(SetMin(hits), ed.rowsPerPage - 5, ed)

(***************************************************************************)
(* RegExp.escape (the polyfill) and the pattern search of the buffer.      *)
(***************************************************************************)
BS == "\\"

\* /[[\]$\\.*+?(){}|^]/
SyntaxChars == {"[", "]", "$", BS, ".", "*", "+", "?", "(", ")", "{", "}", "|", "^"}

\* The punctuators of the third replace: - , = < > # & ! % : ; @ ~ and the
\* blank (the quote characters and the other white space of that class do
\* not occur in a fragment token).
PunctChars == {"-", ",", "=", "<", ">", "#", "&", "!", "%", ":", ";", "@", "~",
               " ", FF}

Letters == {"a", "b", "c", "d", "e", "f", "g", "h", "i", "j", "k", "l", "m",
            "n", "o", "p", "q", "r", "s", "t", "u", "v", "w", "x", "y", "z",
            "A", "B", "C", "D", "E", "F", "G", "H", "I", "J", "K", "L", "M",
            "N", "O", "P", "Q", "R", "S", "T", "U", "V", "W", "X", "Y", "Z"}

\* /[0-9a-zA-Z]/
IsAlnum(c) == IsDigit(c) \/ c \in Letters

\* code.toString(16).padStart(2, "0") for the characters escapeCode meets in
\* the texts of this model.
HexCodes ==
    <<<<"0", "3", "0">>, <<"1", "3", "1">>, <<"2", "3", "2">>, <<"3", "3", "3">>,
      <<"4", "3", "4">>, <<"5", "3", "5">>, <<"6", "3", "6">>, <<"7", "3", "7">>,
      <<"8", "3", "8">>, <<"9", "3", "9">>, <<"a", "6", "1">>, <<"z", "7", "a">>,
      <<"x", "7", "8">>, <<"A", "4", "1">>, <<"H", "4", "8">>, <<"-", "2", "d">>,
      <<"#", "2", "3">>, <<":", "3", "a">>, <<",", "2", "c">>, <<"=", "3", "d">>>>

HasHexCode(c) == \E k \in 1..Len(HexCodes) : HexCodes[k][1] = c
HexCode(c) ==
    LET k == CHOOSE k \in 1..Len(HexCodes) : HexCodes[k][1] = c
    IN  <<HexCodes[k][2], HexCodes[k][3]>>
CharOfHex(h1, h2) ==
    LET k == CHOOSE k \in 1..Len(HexCodes) :
                 HexCodes[k][2] = h1 /\ HexCodes[k][3] = h2
    IN  HexCodes[k][1]

\* escapeCode(char) for a code point up to 0xFF.
escapeCode(c) == <<BS, "x">> \o HexCode(c)

\* .replace(/[[\]$\\.*+?(){}|^]/g, esc + "$&")
RECURSIVE escapeSyntax(_)
escapeSyntax(s) ==
    IF s = <<>> THEN <<>>
    ELSE (IF Head(s) \in SyntaxChars THEN <<BS, Head(s)>> ELSE <<Head(s)>>)
         \o escapeSyntax(Tail(s))

\* .replace(/^[0-9a-zA-Z]/, escapeCode)
escapeLeading(s) ==
    IF s # <<>> /\ IsAlnum(Head(s)) THEN escapeCode(Head(s)) \o Tail(s) ELSE s

\* The third replace: every punctuator becomes its escape code.
RECURSIVE escapePunct(_)
escapePunct(s) ==
    IF s = <<>> THEN <<>>
    ELSE (IF Head(s) \in PunctChars THEN escapeCode(Head(s)) ELSE <<Head(s)>>)
         \o escapePunct(Tail(s))

\* RegExp.escape without any escaping.
regExpEscapeNothing(string) == string

\* RegExp.escape(string)
regExpEscape(string) == escapePunct(escapeLeading(escapeSyntax(string)))

\* The pattern source of each kind of structural marker.
patternSource(type, name) ==
    IF type = "appendix"
    THEN <<"^", " ", "*", "A", "p", "p", "e", "n", "d", "i", "x", " ", "+">> \o name
    ELSE IF type = "section"
    THEN <<"^", " ", "*">> \o name \o <<BS, ".", "?", " ">>
    ELSE <<"^", " ", "+", BS, "[">> \o name \o <<BS, "]", " ">>

\* new RegExp(source, "m"), read as a sequence of atoms: a literal character
\* or `.`, each with its quantifier; the leading ^ anchors at a line start.
IsQuantifier(c) == c \in {"*", "+", "?"}

RECURSIVE compileFrom(_, _)
compileFrom(src, i) ==
    IF i > Len(src) THEN <<>>
    ELSE LET esc  == src[i] = BS /\ i < Len(src)
             hex  == esc /\ src[i + 1] = "x" /\ i + 3 <= Len(src)
             len  == IF hex THEN 4 ELSE IF esc THEN 2 ELSE 1
             kind == IF ~esc /\ src[i] = "." THEN "any" ELSE "lit"
             ch   == IF hex THEN CharOfHex(src[i + 2], src[i + 3])
                     ELSE IF esc THEN src[i + 1] ELSE src[i]
             j    == i + len
             q    == IF j <= Len(src) /\ IsQuantifier(src[j]) THEN src[j] ELSE "1"
         IN  <<[kind |-> kind, ch |-> ch, q |-> q]>>
             \o compileFrom(src, IF q = "1" THEN j ELSE j + 1)

compile(src) == compileFrom(src, 2)

\* Whether atoms[k..] match a prefix of line[j..].
RECURSIVE matchAtoms(_, _, _, _)
matchAtoms(atoms, k, line, j) ==
    IF k > Len(atoms) THEN TRUE
    ELSE LET a    == atoms[k]
             fits == j <= Len(line) /\ (a.kind = "any" \/ line[j] = a.ch)
         IN  CASE a.q = "1" -> fits /\ matchAtoms(atoms, k + 1, line, j + 1)
               [] a.q = "?" -> \/ fits /\ matchAtoms(atoms, k + 1, line, j + 1)
                               \/ matchAtoms(atoms, k + 1, line, j)
               [] a.q = "*" -> \/ matchAtoms(atoms, k + 1, line, j)
                               \/ fits /\ matchAtoms(atoms, k, line, j + 1)
               [] a.q = "+" -> fits /\ (\/ matchAtoms(atoms, k + 1, line, j + 1)
                                        \/ matchAtoms(atoms, k, line, j + 1))

\* editor.buffer.findSync(regex): the rows whose line the pattern matches
\* from its start; the first of them is the match.
matchingRows(ed, src) ==
    {r \in 0..getLastBufferRow(ed) : matchAtoms(compile(src), 1, ed.lines[r + 1], 1)}

(***************************************************************************)
(* executeAnchorAction: structural markers and line/column markers.        *)
(***************************************************************************)
\* `${input}`
toText(input) ==
    IF input = Null THEN <<"n", "u", "l", "l">>
    ELSE IF input = Undefined THEN <<"u", "n", "d", "e", "f", "i", "n", "e", "d">>
    ELSE input

IsSpace(c) == c \in {" ", FF}
IsWordChar(c) == IsAlnum(c) \/ c = "_"

StartsWithAt(s, i, word) ==
    /\ i + Len(word) - 1 <= Len(s)
    /\ \A k \in 1..Len(word) : s[i + k - 1] = word[k]

MarkerTypes ==
    {[type |-> "appendix", word |-> <<"a", "p", "p", "e", "n", "d", "i", "x">>],
     [type |-> "section",  word |-> <<"s", "e", "c", "t", "i", "o", "n">>],
     [type |-> "ref",      word |-> <<"r", "e", "f">>],
     [type |-> "page",     word |-> <<"p", "a", "g", "e">>]}

\* input.match(/^#?(appendix|section|ref|page)-(?!-)(\S+)$/)
sectionMatch(text) ==
    LET i0   == IF Len(text) >= 1 /\ text[1] = "#" THEN 2 ELSE 1
        hits == {t \in MarkerTypes :
                    /\ StartsWithAt(text, i0, t.word)
                    /\ i0 + Len(t.word) + 1 <= Len(text)
                    /\ text[i0 + Len(t.word)] = "-"
                    /\ text[i0 + Len(t.word) + 1] # "-"
                    /\ \A k \in (i0 + Len(t.word) + 1)..Len(text) : ~IsSpace(text[k])}
    IN  IF hits = {} THEN [ok |-> FALSE, type |-> "", token |-> <<>>]
        ELSE LET t == CHOOSE t \in hits : TRUE
             IN  [ok |-> TRUE, type |-> t.type,
                  token |-> SubSeq(text, i0 + Len(t.word) + 1, Len(text))]

\* Math.max(0, n)
maxZero(n) == IF n.finite THEN Num(Max(0, n.val)) ELSE NaN

\* new Point(Math.max(0, parseInt(row, 10) - 1), Math.max(0, parseInt(column, 10) - 1))
markerPointNoClamp(row, column) ==
    Point(parseInt(row).val - 1, parseInt(column).val - 1)

markerPoint(row, column) ==
    Point(Max(0, parseInt(row).val - 1), Max(0, parseInt(column).val - 1))

\* One match of /(?:^#?|(?<=-))L(\d+)(?:C(\d+)\b)?/g beginning at position p;
\* `column = row` stands in for a marker that has no C part.
markerAt(text, p) ==
    LET lead  == IF p = 1 /\ text[1] = "#" THEN 1 ELSE 0
        lpos  == p + lead
        place == p = 1 \/ text[p - 1] = "-"
        n     == IF lpos <= Len(text) /\ text[lpos] = "L"
                 THEN DigitRun(text, lpos + 1) ELSE 0
        after == lpos + 1 + n
        m     == IF after <= Len(text) /\ text[after] = "C"
                 THEN DigitRun(text, after + 1) ELSE 0
        hasC  == /\ m > 0
                 /\ (after + 1 + m > Len(text) \/ ~IsWordChar(text[after + 1 + m]))
        row   == SubSeq(text, lpos + 1, lpos + n)
        col   == IF hasC THEN SubSeq(text, after + 1, after + m) ELSE row
    IN  [ok |-> place /\ n > 0,
         end |-> IF hasC THEN after + 1 + m ELSE after,
         row |-> row, column |-> col]

\* The loop over matchAll: collect points, stop once there are two.
RECURSIVE scanMarkers(_, _, _)
scanMarkers(text, p, offsets) ==
    IF Len(offsets) > 1 \/ p > Len(text) THEN offsets
    ELSE LET mm == markerAt(text, p)
         IN  IF mm.ok
             THEN scanMarkers(text, mm.end, Append(offsets, markerPoint(mm.row, mm.column)))
             ELSE scanMarkers(text, p + 1, offsets)

\* The page branch without its isFinite test: goToPage is reached with NaN,
\* which it reads as no number at all.
pageActionUnguarded(page, ed) == goToPage(page.val, ed)

\* return isFinite(page) ? this.goToPage(page, editor) : editor
pageAction(page, ed) == IF isFinite(page) THEN goToPage(page.val, ed) ELSE ed

\* executeAnchorAction(input, editor)
executeAnchorAction(input, ed) ==
    LET text    == toText(input)
        section == sectionMatch(text)
    IN  IF section.ok
        THEN IF section.type = "page"
             THEN pageAction(maxZero(parseInt(section.token)), ed)
             ELSE LET name == regExpEscape(section.token)
                      rows == matchingRows(ed, patternSource(section.type, name))
                  IN  IF rows # {}
                      THEN LET offset == Point(SetMin(rows), 0)
                           IN  [ed EXCEPT !.sel    = Range(offset, offset),
                                          !.scroll = [row |-> offset.row,
                                                      column |-> offset.column,
                                                      center |-> TRUE]]
                      ELSE ed
        ELSE LET offsets == scanMarkers(text, 1, <<>>)
             IN  IF Len(offsets) >= 1
                 THEN [ed EXCEPT !.sel = Range(offsets[1], offsets[Len(offsets)])]
                 ELSE ed

(***************************************************************************)
(* Commands on the active editor.                                          *)
(***************************************************************************)
\* Keep the two newest entries of the command history.
lastTwo(h) == IF Len(h) > 2 THEN Tail(h) ELSE h

\* Run a command on the active text editor and note it in the history.
runCommand(op, arg, result) ==
    /\ active \in DOMAIN editors
    /\ editors' = [editors EXCEPT ![active] = result]
    /\ hist' = lastTwo(Append(hist, [op |-> op, arg |-> arg,
                                     pre |-> editors[active]]))
    /\ UNCHANGED <<active>>
    /\ UNCHANGED uriVars

PageArgs == (-1)..MaxPageArg

\* goToPage(number) called with a number.
GoToPage(number) ==
    runCommand("goToPage", number, goToPage(number, editors[active]))

PromptInputs ==
    {Null, <<"0", "2">>, <<"-", "1">>, <<"x">>}

\* The go-to-page command: goToPage(event) prompts, parses the answer and
\* recurses with it when it is a number.
GoToPagePrompt(value) ==
    LET n == parseInt(value)
    IN  IF isFinite(n)
        THEN runCommand("goToPage", n.val, goToPage(n.val, editors[active]))
        ELSE runCommand("goToPagePrompt", 0, editors[active])

PrevPage == runCommand("prevPage", 0, prevPage(editors[active]))

NextPage == runCommand("nextPage", 0, nextPage(editors[active]))

(***************************************************************************)
(* Documents and starting states of the page-navigation specification.     *)
(***************************************************************************)
TextLine == <<"a">>

RECURSIVE SeqsUpTo(_, _)
SeqsUpTo(S, n) ==
    IF n = 0 THEN {<<>>}
    ELSE LET shorter == SeqsUpTo(S, n - 1)
         IN  shorter \cup {Append(s, x) : s \in shorter, x \in S}

PageDocs == SeqsUpTo({FFLine, TextLine}, MaxRows) \ {<<>>}

\* Selections an editor can hold on a document: start not after end, both
\* inside the buffer.
Selections(lines) ==
    LET last == Len(lines) - 1
    IN  UNION {{Range(Point(r1, 0), Point(r2, c2)) :
                   c2 \in 0..Min(1, Len(lines[r2 + 1]))} :
               r1 \in 0..last, r2 \in 0..last} \cap
        {s \in [start : [row : 0..last, column : {0}],
                end : [row : 0..last, column : 0..1]] : s.start.row <= s.end.row}

\* editor.rowsPerPage: a short, a just-fitting and a tall window.
RowsPerPage == {2, 3, 5}

EditorsOn(docs) ==
    UNION {{[lines |-> l, sel |-> s, scroll |-> NoScroll, rowsPerPage |-> rpp] :
               s \in Selections(l), rpp \in RowsPerPage} : l \in docs}

(***************************************************************************)
(* Local storage and settings.                                             *)
(***************************************************************************)
DefaultDirectory == <<"/", "t", "m", "p", "/", "R", "F", "C", "s">>

\* join(rfcDirectory, name)
join(dir, name) == [dir |-> dir, name |-> name]

\* `rfc${rfc}.txt`
rfcFileName(rfc) == <<"r", "f", "c">> \o numberToString(rfc) \o <<".", "t", "x", "t">>

\* "https://www.rfc-editor.org/rfc/rfc#.txt", the host part kept as one token.
DefaultSource == <<"https://www.rfc-editor.org/rfc/", "r", "f", "c", "#", ".", "t", "x", "t">>

NoFiles == [p \in {} |-> <<>>]

\* A machine with no accounts to read, and a path resolver not yet used.
NoSystem == [platform |-> "linux", hasPasswd |-> FALSE, passwd |-> <<>>,
             dscl |-> <<>>, HOME |-> <<"/", "h">>]

PathIdle ==
    /\ system = NoSystem
    /\ userList = [kind |-> "undefined", users |-> [n \in {} |-> <<>>]]
    /\ loads = 0
    /\ calls = <<>>
    /\ console = <<>>

UriIdle ==
    /\ PathIdle
    /\ rfcDirectory = DefaultDirectory
    /\ downloadEnabled = TRUE
    /\ downloadSource = DefaultSource
    /\ files = NoFiles
    /\ dirs = {}
    /\ reqs = <<>>
    /\ errors = <<>>

(***************************************************************************)
(* Reading an rfc: URI (basename, url.parse, and the tests of handleURI).   *)
(***************************************************************************)
\* First index >= from at which s holds c; 0 when there is none.
RECURSIVE indexOf(_, _, _)
indexOf(s, c, from) ==
    IF from > Len(s) THEN 0
    ELSE IF s[from] = c THEN from ELSE indexOf(s, c, from + 1)

\* Last index at which s holds c; 0 when there is none.
RECURSIVE lastIndexOf(_, _, _)
lastIndexOf(s, c, upto) ==
    IF upto < 1 THEN 0
    ELSE IF s[upto] = c THEN upto ELSE lastIndexOf(s, c, upto - 1)

RECURSIVE stripTrailingSlashes(_)
stripTrailingSlashes(s) ==
    IF Len(s) > 1 /\ s[Len(s)] = "/" THEN stripTrailingSlashes(SubSeq(s, 1, Len(s) - 1))
    ELSE s

\* basename(uri)
basename(uri) ==
    LET t == stripTrailingSlashes(uri)
        k == lastIndexOf(t, "/", Len(t))
    IN  SubSeq(t, k + 1, Len(t))

\* url.parse: the protocol is a leading run of [a-z0-9.+-] closed by a colon.
RECURSIVE schemeRun(_, _)
schemeRun(s, from) ==
    IF from <= Len(s) /\ (IsAlnum(s[from]) \/ s[from] \in {".", "+", "-"})
    THEN 1 + schemeRun(s, from + 1) ELSE 0

\* url.parse(uri), for the fields handleURI reads.  A protocol other than
\* the slashed web protocols has its host read with or without `//`.
parseURL(uri) ==
    LET n        == schemeRun(uri, 1)
        hasProto == n > 0 /\ n < Len(uri) /\ uri[n + 1] = ":"
        rest     == IF hasProto THEN SubSeq(uri, n + 2, Len(uri)) ELSE uri
        h        == indexOf(rest, "#", 1)
        hash     == IF h = 0 THEN Null ELSE SubSeq(rest, h, Len(rest))
        body     == IF h = 0 THEN rest ELSE SubSeq(rest, 1, h - 1)
        slashes  == Len(body) >= 2 /\ body[1] = "/" /\ body[2] = "/"
        afterSl  == IF hasProto /\ slashes THEN SubSeq(body, 3, Len(body)) ELSE body
        sl       == indexOf(afterSl, "/", 1)
        host     == IF sl = 0 THEN afterSl ELSE SubSeq(afterSl, 1, sl - 1)
        tail     == IF sl = 0 THEN Null ELSE SubSeq(afterSl, sl, Len(afterSl))
    IN  IF hasProto
        THEN [protocol |-> SubSeq(uri, 1, n + 1), hostname |-> host,
              path |-> tail, hash |-> hash]
        ELSE [protocol |-> Null, hostname |-> Null,
              path |-> IF body = <<>> THEN Null ELSE body, hash |-> hash]

RfcScheme == <<"r", "f", "c", ":">>

\* The number and the anchor handleURI reads from a URI.
readURI(uri) ==
    LET base    == basename(uri)
        h       == indexOf(base, "#", 1)
        name    == IF h = 0 THEN base ELSE SubSeq(base, 1, h - 1)
        anchor0 == IF h = 0 THEN <<>> ELSE SubSeq(base, h + 1, Len(base))
        url     == parseURL(uri)
    IN  IF url.protocol = Null /\ StartsWithAt(name, 1, RfcScheme)
                               /\ DigitRun(name, 5) > 0
        THEN [rfc |-> parseInt(SubSeq(name, 5, Len(name))), anchor |-> anchor0]
        ELSE IF url.protocol = RfcScheme
        THEN LET payload ==
                     IF url.hostname # <<>> THEN url.hostname
                     ELSE IF url.path = Null THEN Undefined
                     ELSE IF Len(url.path) > 0 /\ url.path[1] = "/"
                          THEN Tail(url.path) ELSE url.path
             IN  [rfc |-> IF payload = Undefined THEN NaN ELSE parseInt(payload),
                  anchor |-> url.hash]
        ELSE [rfc |-> NaN, anchor |-> anchor0]

RECURSIVE replaceFirstHash(_, _)
\* String.prototype.replace with a string pattern: the first "#" only.
replaceFirstHash(source, rfc) ==
    IF source = <<>> THEN <<>>
    ELSE IF Head(source) = "#" THEN numberToString(rfc) \o Tail(source)
    ELSE <<Head(source)>> \o replaceFirstHash(Tail(source), rfc)

\* downloadSource.replaceAll("#", rfc)
RECURSIVE replaceAllHash(_, _)
replaceAllHash(source, rfc) ==
    IF source = <<>> THEN <<>>
    ELSE (IF Head(source) = "#" THEN numberToString(rfc) ELSE <<Head(source)>>)
         \o replaceAllHash(Tail(source), rfc)

(***************************************************************************)
(* Page navigation on one open document.                                   *)
(***************************************************************************)
PagePath == join(DefaultDirectory, rfcFileName(Num(1)))

InitPage ==
    /\ \E ed \in EditorsOn(PageDocs) : editors = [p \in {PagePath} |-> ed]
    /\ active = PagePath
    /\ hist = <<>>
    /\ UriIdle

NextPageSpec ==
    \/ \E number \in PageArgs : GoToPage(number)
    \/ \E value \in PromptInputs : GoToPagePrompt(value)
    \/ PrevPage
    \/ NextPage

SpecPage == InitPage /\ [][NextPageSpec]_vars

\* Walking a document with the two paging commands only.
NextWalk ==
    \/ PrevPage
    \/ NextPage

SpecWalk == InitPage /\ [][NextWalk]_vars

(***************************************************************************)
(* Vocabulary of the page claims.                                          *)
(***************************************************************************)
cur == editors[active]
lastCmd == hist[Len(hist)]
prevCmd == hist[Len(hist) - 1]

\* Rows holding nothing but a form-feed.
BoundarySet(lines) == {r \in 0..(Len(lines) - 1) : lines[r + 1] = FFLine}

\* The j-th boundary row, j counted from zero.
BoundaryRow(lines, j) ==
    CHOOSE r \in BoundarySet(lines) :
        Cardinality({q \in BoundarySet(lines) : q < r}) = j

PageCount(lines) == Cardinality(BoundarySet(lines)) + 1

IsCursorAt(ed, row) == ed.sel = Range(Point(row, 0), Point(row, 0))

\* Row k is inside page k of the document (k counted from one).
InsidePage(lines, k, row) ==
    /\ k > 1 => row > BoundaryRow(lines, k - 2)
    /\ IF k < PageCount(lines) THEN row < BoundaryRow(lines, k - 1)
                               ELSE row < Len(lines)

\* Every page of the document holds at least one row.
NonEmptyPages(lines) ==
    LET B == BoundarySet(lines)
    IN  /\ 0 \notin B
        /\ (Len(lines) - 1) \notin B
        /\ \A b \in B : (b + 1) \notin B

\* C1: for 1 <= k <= N on a document of N pages, goToPage(k) leaves the
\* cursor at row 0 when k = 1 and otherwise strictly between boundary k-2 and
\* boundary k-1 (the document end when k = N).  Stated for the documents in
\* which every page has a row to land on.
C1_GoToPageLandsInsidePage ==
    (Len(hist) > 0 /\ lastCmd.op = "goToPage" /\ NonEmptyPages(cur.lines)
        /\ lastCmd.arg >= 1 /\ lastCmd.arg <= PageCount(cur.lines))
    => /\ lastCmd.arg = 1 => IsCursorAt(cur, 0)
       /\ lastCmd.arg > 1 =>
            /\ cur.sel.start = cur.sel.end
            /\ cur.sel.start.row > BoundaryRow(cur.lines, lastCmd.arg - 2)
            /\ InsidePage(cur.lines, lastCmd.arg, cur.sel.start.row)

\* The row the next-page scan is to stop at: the nearest boundary at or below
\* `from`, the last row when there is none.
NextStop(lines, from) ==
    LET below == {b \in BoundarySet(lines) : b >= from}
    IN  IF below = {} THEN Len(lines) - 1 ELSE SetMin(below)

\* The row the previous-page scan is to stop at: the nearest row at or above
\* `from` that is row 0 or a boundary.
PrevStop(lines, from) ==
    LET above == {b \in BoundarySet(lines) \cup {0} : b <= from}
    IN  IF above = {} THEN 0 ELSE SetMax(above)

\* C7: nextPage starts at the selection's maximum row, one row lower when
\* that row is a boundary, and puts the cursor at column 0 of the nearest
\* boundary at or below, or of the document's last row when there is none.
C7_NextPageReachesBoundaryOrLastRow ==
    (Len(hist) > 0 /\ lastCmd.op = "nextPage"
        /\ lastCmd.pre.sel.end.row < Len(cur.lines))
    => LET top   == SetMax({lastCmd.pre.sel.start.row, lastCmd.pre.sel.end.row})
           start == IF top \in BoundarySet(cur.lines) THEN top + 1 ELSE top
       IN  IsCursorAt(cur, NextStop(cur.lines, start))

\* C8: prevPage starts at the selection's minimum row, one row higher when
\* that row is a boundary, and sets a zero-width selection at column 0 of the
\* nearest row at or above that is row 0 or a boundary, scrolling to exactly
\* that row; also from row 0 when row 0 is a boundary.
C8_PrevPageReachesBoundaryOrTop ==
    (Len(hist) > 0 /\ lastCmd.op = "prevPage"
        /\ lastCmd.pre.sel.end.row < Len(cur.lines))
    => LET low   == SetMin({lastCmd.pre.sel.start.row, lastCmd.pre.sel.end.row})
           start == IF low \in BoundarySet(cur.lines) THEN low - 1 ELSE low
           stop  == PrevStop(cur.lines, start)
       IN  /\ IsCursorAt(cur, stop)
           /\ cur.scroll = [row |-> stop, column |-> 0, center |-> FALSE]

\* A zero-width cursor on a row of the document that is not a boundary.
MidPage(ed) ==
    /\ ed.sel.start = ed.sel.end
    /\ ed.sel.start.row \in (0..(Len(ed.lines) - 1)) \ BoundarySet(ed.lines)

\* Page (counted from one) holding a non-boundary row.
PageOf(lines, row) == Cardinality({b \in BoundarySet(lines) : b < row}) + 1

NextThenPrev ==
    /\ Len(hist) = 2
    /\ prevCmd.op = "nextPage"
    /\ lastCmd.op = "prevPage"
    /\ MidPage(prevCmd.pre)

\* C6 as stated: nextPage then prevPage from a mid-page cursor leaves the
\* cursor on a row of the page it started in, page p > 1 beginning right after
\* the (p-1)th boundary line.  Stated for the documents in which every page
\* has a row.
C6_NextThenPrevStaysInPage ==
    (NextThenPrev /\ NonEmptyPages(cur.lines))
    => /\ cur.sel.start = cur.sel.end
       /\ InsidePage(cur.lines, PageOf(cur.lines, prevCmd.pre.sel.start.row),
                     cur.sel.start.row)

\* C6 as amended: nextPage then prevPage from a mid-page cursor leaves the
\* cursor at column 0 of the top of the page it started in: row 0 for page 1,
\* and for page p > 1 the (p-1)th boundary line itself, the row just before
\* the page's first row.
C6_NextThenPrevReachesPageTop ==
    NextThenPrev
    => LET p == PageOf(cur.lines, prevCmd.pre.sel.start.row)
       IN  IsCursorAt(cur, IF p = 1 THEN 0 ELSE BoundaryRow(cur.lines, p - 2))

\* The round trip from the second page of a document: the cursor ends on the
\* boundary line above the page.
C6_Witness ==
    /\ NextThenPrev
    /\ PageOf(cur.lines, prevCmd.pre.sel.start.row) = 2
    /\ prevCmd.pre.sel.start.row > BoundaryRow(cur.lines, 0) + 1
    /\ cur.sel.start.row = BoundaryRow(cur.lines, 0)

\* The last two commands were goToPage(first) and then goToPage(second).
TwoGoToPages(first, second) ==
    /\ Len(hist) >= 2
    /\ prevCmd.op = "goToPage" /\ prevCmd.arg = first
    /\ lastCmd.op = "goToPage" /\ lastCmd.arg = second

\* C12: on a document of N pages goToPage(k), k > N, leaves the selection and
\* the scroll position that goToPage(N) leaves, and goToPage(k), k < 1, those
\* that goToPage(1) leaves.  Stated on the calls themselves and on two calls
\* in a row: the second call finds what the first left and leaves it.
C12_GoToPageClampsOutOfRange ==
    /\ (Len(hist) >= 1 /\ lastCmd.op = "goToPage") =>
           LET N == PageCount(cur.lines)
               k == lastCmd.arg
           IN  /\ k > N => cur = goToPage(N, lastCmd.pre)
               /\ k < 1 => cur = goToPage(1, lastCmd.pre)
    /\ \A k \in PageArgs :
           /\ (k > PageCount(cur.lines) /\ TwoGoToPages(PageCount(cur.lines), k))
                  => cur = lastCmd.pre
           /\ (k < 1 /\ TwoGoToPages(1, k)) => cur = lastCmd.pre

\* goToPage(3) and then goToPage(4) on a document of three pages: both leave
\* the cursor below the first boundary line, away from the top.
C12_Witness ==
    /\ TwoGoToPages(3, 4)
    /\ PageCount(cur.lines) = 3
    /\ cur.sel.start.row > 0
    /\ cur = lastCmd.pre
    /\ prevCmd.pre.sel # cur.sel

(***************************************************************************)
(* Fragments applied to an open document.                                  *)
(***************************************************************************)
\* executeAnchorAction(input, editor) on the active editor.
ExecuteAnchorAction(input) ==
    runCommand("anchor", input, executeAnchorAction(input, editors[active]))

MaxMark == 2
MaxTextRows == 2
MaxPageToken == 3

\* L<row> and L<row>C<column>; no C part when column < 0.
markerText(row, column) ==
    <<"L">> \o DecNat(row) \o (IF column < 0 THEN <<>> ELSE <<"C">> \o DecNat(column))

Markers == {markerText(r, c) : r \in 0..MaxMark, c \in (-1)..MaxMark}

Trailer == <<"-", "L", "9", "C", "9">>

MarkerInputs ==
    Markers
    \cup {<<"#">> \o m1 : m1 \in Markers}
    \cup {m1 \o <<"-">> \o m2 : m1 \in Markers, m2 \in Markers}
    \cup {m1 \o <<"-">> \o m2 \o Trailer :
             m1 \in {markerText(2, -1), markerText(1, 2)}, m2 \in Markers}
    \cup {<<>>, Null, <<"L">>, <<"x", "L", "2">>, <<"-", "L", "2">>,
          <<"L", "2", "C", "1", "x">>, <<"L", "1", "2">>}

\* Tokens of structural markers, and the fragments made of them.
Tokens == {<<"3", ".", "2">>, <<"3">>, <<"a">>, <<"A">>, <<"z", "z">>, <<".">>}

Word(type) == (CHOOSE t \in MarkerTypes : t.type = type).word

SectionInputs ==
    {Word(ty) \o <<"-">> \o t : ty \in {"section", "appendix", "ref"}, t \in Tokens}
    \cup {<<"#">> \o Word(ty) \o <<"-">> \o <<"3", ".", "2">> :
             ty \in {"section", "appendix", "ref"}}
    \cup {Word("page") \o <<"-">> \o t :
             t \in {DecNat(P) : P \in 0..MaxPageToken} \cup {<<"x">>, <<"2", "x">>}}
    \cup {Word("section") \o <<"-", "-", "a">>, Word("section") \o <<"-">>,
          Word("section") \o <<"-", "3", " ">>, Word("ref") \o <<"a">>}

FragmentInputs == MarkerInputs \cup SectionInputs

\* Lines of an RFC text: headings, a look-alike that only a wildcard would
\* take for section 3.2, a reference, an appendix title, a page break.
TextLines ==
    {<<"3", ".", "2", " ", "H">>,
     <<"3", "x", "2", " ", "H">>,
     <<" ", "3", ".", "2", ".", " ", "H">>,
     <<" ", "[", "a", "]", " ", "x">>,
     <<"A", "p", "p", "e", "n", "d", "i", "x", " ", " ", "A">>,
     <<".", " ", "z", "z", " ">>,
     FFLine}

TextDocs == SeqsUpTo(TextLines, MaxTextRows) \ {<<>>}

\* A document with its first character selected, so that a selection that
\* is set again is told from one left alone; nothing scrolled yet.
FragmentEditors ==
    {[lines |-> l, sel |-> Range(Point(0, 0), Point(0, 1)),
      scroll |-> NoScroll, rowsPerPage |-> 3] : l \in TextDocs}

InitFragment ==
    /\ \E ed \in FragmentEditors : editors = [p \in {PagePath} |-> ed]
    /\ active = PagePath
    /\ hist = <<>>
    /\ UriIdle

\* One fragment is applied to each starting document.
NextFragment ==
    \E input \in FragmentInputs : hist = <<>> /\ ExecuteAnchorAction(input)

SpecFragment == InitFragment /\ [][NextFragment]_vars

(***************************************************************************)
(* Vocabulary of the fragment claims.                                      *)
(***************************************************************************)
AnchorRan == Len(hist) > 0 /\ lastCmd.op = "anchor"

\* The fragment is `body`, with or without a leading #.
FragmentIs(body) == lastCmd.arg = body \/ lastCmd.arg = <<"#">> \o body

\* The fragment begins with `head`, after its leading # when it has one.
FragmentStarts(head) ==
    \E from \in {1, 2} :
        /\ from = 2 => (Len(lastCmd.arg) >= 1 /\ lastCmd.arg[1] = "#")
        /\ from + Len(head) - 1 <= Len(lastCmd.arg)
        /\ \A k \in 1..Len(head) : lastCmd.arg[from + k - 1] = head[k]

ZeroClamp(n) == IF n < 1 THEN 0 ELSE n - 1

\* C2: a single marker L<r> without a column part, r >= 1, selects a
\* zero-width range at row r-1, column 0.  Stated for the documents that have
\* row r-1 with at least r-1 characters on it, so that every position in
\* question exists in the buffer.
C2_LineMarkerSelectsColumnZero ==
    \A r \in 1..MaxMark :
        (AnchorRan /\ FragmentIs(markerText(r, -1))
            /\ Len(cur.lines) >= r /\ Len(cur.lines[r]) >= r - 1)
        => cur.sel = Range(Point(r - 1, 0), Point(r - 1, 0))

C11_PageFragmentIsGoToPage ==
    AnchorRan =>
        /\ \A P \in 0..MaxPageToken :
               FragmentIs(Word("page") \o <<"-">> \o DecNat(P))
               => cur = goToPage(P, lastCmd.pre)
        /\ FragmentIs(Word("page") \o <<"-", "x">>) => cur = lastCmd.pre

\* page-3 on a document of two boundary lines: the cursor leaves the top for
\* the row goToPage computes from the first boundary.
C11_Witness ==
    /\ AnchorRan
    /\ lastCmd.arg = Word("page") \o <<"-", "3">>
    /\ cur.lines = <<FFLine, FFLine>>
    /\ cur.sel = Range(Point(1, 0), Point(1, 0))
    /\ cur.scroll.row = 1
    /\ lastCmd.pre.sel # cur.sel

\* line[from ..] begins with `word`.
HasAt(line, from, word) ==
    /\ from + Len(word) - 1 <= Len(line)
    /\ \A k \in 1..Len(word) : line[from + k - 1] = word[k]

\* line[from .. from+n-1] are n blanks.
BlanksAt(line, from, n) ==
    /\ from + n - 1 <= Len(line)
    /\ \A k \in from..(from + n - 1) : line[k] = " "

\* The shape a line must have for each kind, the token taken literally.
HasShape(type, line, t) ==
    CASE type = "section" ->
            \E n \in 0..Len(line) :
                /\ BlanksAt(line, 1, n)
                /\ \/ HasAt(line, n + 1, t \o <<" ">>)
                   \/ HasAt(line, n + 1, t \o <<".", " ">>)
      [] type = "appendix" ->
            \E n \in 0..Len(line), m \in 1..Len(line) :
                /\ BlanksAt(line, 1, n)
                /\ HasAt(line, n + 1, <<"A", "p", "p", "e", "n", "d", "i", "x">>)
                /\ BlanksAt(line, n + 9, m)
                /\ HasAt(line, n + 9 + m, t)
      [] type = "ref" ->
            \E n \in 1..Len(line) :
                /\ BlanksAt(line, 1, n)
                /\ HasAt(line, n + 1, <<"[">> \o t \o <<"]", " ">>)

ShapeRows(type, lines, t) ==
    {r \in 0..(Len(lines) - 1) : HasShape(type, lines[r + 1], t)}

\* C9: section-<t>, appendix-<t> and ref-<t> match t literally and put a
\* zero-width selection at the start of the first line of the kind's shape,
\* the view centred there; without such a line the selection and the scroll
\* position stay as they were.
C9_StructuralMarkerFindsFirstLine ==
    \A ty \in {"section", "appendix", "ref"}, t \in Tokens :
        (AnchorRan /\ FragmentIs(Word(ty) \o <<"-">> \o t))
        => LET rows == ShapeRows(ty, cur.lines, t)
           IN  IF rows = {}
               THEN cur = lastCmd.pre
               ELSE /\ IsCursorAt(cur, SetMin(rows))
                    /\ cur.scroll = [row |-> SetMin(rows), column |-> 0,
                                     center |-> TRUE]

\* section-3.2 on a document whose first line is the look-alike "3x2 H" and
\* whose second line is "3.2 H": the cursor goes to the second line.
C9_Witness ==
    /\ AnchorRan
    /\ lastCmd.arg = Word("section") \o <<"-", "3", ".", "2">>
    /\ cur.lines = <<<<"3", "x", "2", " ", "H">>, <<"3", ".", "2", " ", "H">>>>
    /\ IsCursorAt(cur, 1)
    /\ lastCmd.pre.sel # cur.sel

(***************************************************************************)
(* The rfc: opener: handleURI, downloadFile and what follows them.         *)
(***************************************************************************)
MaxReq == 2

NoPath == join(<<>>, <<>>)

\* A storage test that also counts a file some request is fetching.
isFileOrFetching(path) ==
    \/ path \in DOMAIN files
    \/ \E i \in DOMAIN reqs : reqs[i].path = path /\ reqs[i].pc = "fetching"

\* A storage test that finds no file anywhere.
isFileNever(path) == FALSE

isFile(path) == path \in DOMAIN files
isDir(dir) == dir \in dirs

\* Text of a file as the lines of a buffer.
linesOf(bytes) == IF bytes = <<>> THEN <<<<>>>> ELSE bytes

\* The editor atom.workspace.openTextFile(path) resolves with: the pane's
\* item for the path when there is one, a new editor on the file otherwise.
openTextFile(path) ==
    IF path \in DOMAIN editors THEN editors[path]
    ELSE [lines |-> linesOf(files[path].bytes),
          sel |-> Range(Point(0, 0), Point(0, 0)),
          scroll |-> NoScroll, rowsPerPage |-> 3]

\* A call of handleURI that has returned undefined.
declined(uri, rd) ==
    [uri |-> uri, rfc |-> rd.rfc, anchor |-> rd.anchor,
     path |-> NoPath, url |-> <<>>, pc |-> "declined", bytes |-> <<>>,
     steps |-> <<>>, promise |-> "none", error |-> "none"]

\* The .catch of the download chain calls atom.workspace.addError(message,
\* {detail: error}).  Where the host's workspace has that method, one error
\* notification carries the error and the chain settles with the method's
\* return value.  Atom's Workspace has no addError (the NotificationManager
\* has): there the call throws a TypeError inside the handler, nothing is
\* notified and the promise handleURI returned rejects.
catchDownloadError(i, error) ==
    \/ /\ errors' = Append(errors, [req |-> i,
                                    message |-> "Error caught while downloading RFC",
                                    detail |-> error])
       /\ reqs' = [reqs EXCEPT ![i].pc = "failed", ![i].promise = "fulfilled",
                               ![i].error = error]
    \/ /\ errors' = errors
       /\ reqs' = [reqs EXCEPT ![i].pc = "failed", ![i].promise = "rejected",
                               ![i].error = error]

\* A setting read that answers true whatever the setting is.
getDownloadEnabledAlways == TRUE

\* atom.config.get("language-rfc.downloadEnabled")
getDownloadEnabled == downloadEnabled

\* handleURI(uri), up to its return.
handleURI(uri) ==
    \E rd \in {readURI(uri)} :
    \E path \in {join(rfcDirectory, rfcFileName(rd.rfc))} :
    \E none \in {declined(uri, rd)} :
        /\ Len(reqs) < MaxReq
        /\ UNCHANGED <<rfcDirectory, downloadEnabled, downloadSource, files,
                       errors, hist, pathVars>>
        /\ IF rfcDirectory = <<>> \/ ~isFinite(rd.rfc)
           THEN /\ reqs' = Append(reqs, none)
                /\ UNCHANGED <<editors, active, dirs>>
           ELSE IF path \in DOMAIN editors
           THEN /\ editors' = [editors EXCEPT
                                  ![path] = executeAnchorAction(rd.anchor, editors[path])]
                /\ reqs' = Append(reqs, [none EXCEPT !.path = path, !.pc = "done",
                                                     !.steps = <<"anchor">>])
                /\ UNCHANGED <<active, dirs>>
           ELSE IF isFile(path)
           THEN /\ reqs' = Append(reqs, [none EXCEPT !.path = path, !.pc = "opening",
                                                     !.promise = "pending"])
                /\ UNCHANGED <<editors, active, dirs>>
           ELSE IF ~getDownloadEnabled
           THEN /\ reqs' = Append(reqs, [none EXCEPT !.path = path, !.pc = "disabled"])
                /\ UNCHANGED <<editors, active, dirs>>
           ELSE /\ dirs' = dirs \cup {rfcDirectory}
                /\ reqs' = Append(reqs,
                       [none EXCEPT !.path = path, !.pc = "fetching",
                                    !.url = replaceAllHash(downloadSource, rd.rfc),
                                    !.steps = (IF isDir(rfcDirectory) THEN <<>>
                                               ELSE <<"mkdir">>) \o <<"fetch">>,
                                    !.promise = "pending"])
                /\ UNCHANGED <<editors, active>>

\* The opener is handed a URI.
HandleURI(uri) == handleURI(uri)

\* openRFC(number): atom.workspace.open("rfc:" + number) reaches the opener.
OpenRFC(number) == handleURI(RfcScheme \o numberToString(Num(number)))

\* openRFC(event): the typed value is parsed and opened when it is positive.
OpenRFCPrompt(value) ==
    LET n == parseInt(value)
    IN  /\ isFinite(n) /\ n.val > 0
        /\ handleURI(RfcScheme \o numberToString(n))

\* What the download source answers with: a document that names the URL it
\* was fetched from on its first line.
fetch(url) == <<url, FFLine, <<"a", "b", "c">>>>

\* The path of request i as the directory setting stands when it is read.
targetPathNow(i) == join(rfcDirectory, rfcFileName(reqs[i].rfc))

\* The `const path` of the call of handleURI that made request i: the
\* callbacks of its chain write to it and open it.
targetPath(i) == reqs[i].path

\* downloadFile: the fetch resolves and the bytes are written to the path;
\* the chain goes on to open the file.
FetchResolve(i) ==
    /\ i \in 1..Len(reqs) /\ reqs[i].pc = "fetching"
    /\ files' = [q \in DOMAIN files \cup {targetPath(i)} |->
                    IF q = targetPath(i)
                    THEN [bytes |-> fetch(reqs[i].url), by |-> i]
                    ELSE files[q]]
    /\ reqs' = [reqs EXCEPT ![i].pc = "opening", ![i].bytes = fetch(reqs[i].url),
                            ![i].steps = Append(@, "write")]
    /\ UNCHANGED <<pathVars, editors, active, hist, rfcDirectory, downloadEnabled,
                   downloadSource, dirs, errors>>

\* downloadFile: the fetch rejects.
FetchReject(i) ==
    /\ i \in 1..Len(reqs) /\ reqs[i].pc = "fetching"
    /\ catchDownloadError(i, "fetch failed")
    /\ UNCHANGED <<pathVars, editors, active, hist, rfcDirectory, downloadEnabled,
                   downloadSource, files, dirs>>

\* downloadFile: the fetch resolves and writeFileSync throws.
WriteFail(i) ==
    /\ i \in 1..Len(reqs) /\ reqs[i].pc = "fetching"
    /\ catchDownloadError(i, "write failed")
    /\ UNCHANGED <<pathVars, editors, active, hist, rfcDirectory, downloadEnabled,
                   downloadSource, files, dirs>>

\* openTextFile resolves; the fragment action runs on its editor.
OpenResolve(i) ==
    /\ i \in 1..Len(reqs) /\ reqs[i].pc = "opening"
    /\ \E path \in {targetPath(i)} :
       \E ed \in {executeAnchorAction(reqs[i].anchor, openTextFile(path))} :
           /\ editors' = [q \in DOMAIN editors \cup {path} |->
                             IF q = path THEN ed ELSE editors[q]]
           /\ active' = path
    /\ reqs' = [reqs EXCEPT ![i].pc = "done", ![i].promise = "fulfilled",
                            ![i].steps = @ \o <<"open", "anchor">>]
    /\ UNCHANGED <<pathVars, hist, rfcDirectory, downloadEnabled, downloadSource, files,
                   dirs, errors>>

\* The settings change.
SetDownloadEnabled(b) ==
    /\ b # downloadEnabled
    /\ downloadEnabled' = b
    /\ UNCHANGED <<pathVars, editors, active, hist, rfcDirectory, downloadSource, files,
                   dirs, reqs, errors>>

\* What the observer of language-rfc.rfcDirectory has stored at activation:
\* the expanded setting, the empty string for an empty setting.
Directories == {<<>>, DefaultDirectory}

\* What is asked of the opener.
URIs ==
    {RfcScheme \o <<"7">>,
     RfcScheme \o <<"0">>,
     RfcScheme \o <<"x">>,
     RfcScheme \o <<"0", "0", "7", "#", "L", "2">>,
     RfcScheme \o <<"/", "/", "7", "/", "L", "2">>,
     <<".", "/">> \o RfcScheme \o <<"7", "#", "L", "2">>}

OpenArgs == {-3, 0, 7}
TypedValues == {Null, <<"7">>, <<"0">>, <<"-", "3">>, <<"x">>}

TwoHashSource == <<"https://mirror/", "#", "/", "r", "f", "c", "#", ".", "t", "x", "t">>

NoEditors == [p \in {} |-> <<>>]

InitURI ==
    /\ editors = NoEditors
    /\ active = NoPath
    /\ hist = <<>>
    /\ rfcDirectory \in Directories
    /\ downloadEnabled = TRUE
    /\ downloadSource \in {DefaultSource, TwoHashSource}
    /\ files = NoFiles
    /\ dirs = {}
    /\ reqs = <<>>
    /\ errors = <<>>
    /\ PathIdle

NextURI ==
    \/ \E uri \in URIs : HandleURI(uri)
    \/ \E number \in OpenArgs : OpenRFC(number)
    \/ \E value \in TypedValues : OpenRFCPrompt(value)
    \/ \E i \in 1..MaxReq : FetchResolve(i)
    \/ \E i \in 1..MaxReq : FetchReject(i)
    \/ \E i \in 1..MaxReq : WriteFail(i)
    \/ \E i \in 1..MaxReq : OpenResolve(i)
    \/ \E b \in BOOLEAN : SetDownloadEnabled(b)

SpecURI == InitURI /\ [][NextURI]_vars

(***************************************************************************)
(* What is claimed of the opener.                                          *)
(***************************************************************************)
InSteps(r, step) == \E k \in DOMAIN r.steps : r.steps[k] = step
LastSteps(r, n) ==
    IF Len(r.steps) < n THEN r.steps
    ELSE SubSeq(r.steps, Len(r.steps) - n + 1, Len(r.steps))

\* A request that found its file absent and not open with downloads enabled,
\* and whose fetch and write succeeded.
Downloaded(r) == InSteps(r, "fetch") /\ r.pc \in {"opening", "done"}

DecimalOf(n) ==
    CASE n = 7 -> <<"7">> [] n = 0 -> <<"0">> [] n = -3 -> <<"-", "3">>

RECURSIVE Flatten(_)
Flatten(parts) == IF parts = <<>> THEN <<>> ELSE Head(parts) \o Flatten(Tail(parts))

\* The download source with every "#" replaced by the decimal number.
SourceFor(n) ==
    Flatten([k \in DOMAIN downloadSource |->
                IF downloadSource[k] = "#" THEN DecimalOf(n) ELSE <<downloadSource[k]>>])

\* <cacheDir>/rfcN.txt
CachePath(n) ==
    [dir |-> rfcDirectory,
     name |-> <<"r", "f", "c">> \o DecimalOf(n) \o <<".", "t", "x", "t">>]

\* C3: when a requested RFC is absent locally, not open, downloads are enabled
\* and the fetch succeeds, the file <cacheDir>/rfcN.txt holds exactly the bytes
\* fetched from the download source with every "#" replaced by the decimal N;
\* the document is opened only after the write, and the fragment action is
\* applied only after the open.
C3_DownloadWritesThenOpensThenAnchors ==
    \A i \in DOMAIN reqs :
        LET r == reqs[i]
            n == r.rfc.val
        IN  /\ r.pc = "fetching" =>
                   ~InSteps(r, "write") /\ ~InSteps(r, "open") /\ ~InSteps(r, "anchor")
            /\ Downloaded(r) =>
                   /\ r.url = SourceFor(n)
                   /\ r.path = CachePath(n)
                   /\ r.path \in DOMAIN files
                   /\ files[r.path].bytes = fetch(SourceFor(n))
                   /\ r.pc = "opening" =>
                          /\ LastSteps(r, 2) = <<"fetch", "write">>
                          /\ ~InSteps(r, "open") /\ ~InSteps(r, "anchor")
                   /\ r.pc = "done" =>
                          /\ LastSteps(r, 4) = <<"fetch", "write", "open", "anchor">>
                          /\ r.path \in DOMAIN editors
                          /\ editors[r.path].lines = fetch(SourceFor(n))

\* RFC 7 was downloaded from a source with two "#", opened, and its fragment
\* L2 moved the selection to the second row.
C3_Witness ==
    \E i \in DOMAIN reqs :
        /\ Downloaded(reqs[i]) /\ reqs[i].pc = "done"
        /\ reqs[i].rfc = Num(7)
        /\ reqs[i].anchor = <<"#", "L", "2">>
        /\ downloadSource = TwoHashSource
        /\ files[reqs[i].path].by = i
        /\ editors[reqs[i].path].sel.start.row = 1

FailureDetails == {"fetch failed", "write failed"}

\* The parsed number of a request is a positive integer.
IsPositive(rfc) == isFinite(rfc) /\ rfc.val > 0

\* C4: a failed fetch or file write of a download (of a positive RFC number)
\* is delivered as one error notification carrying the underlying error; the
\* promise handleURI returned does not reject, no document is opened and no
\* fragment action is run for the request, and the other requests are not
\* affected.
C4_DownloadFailureIsNotified ==
    [][\A i \in DOMAIN reqs :
          /\ (IsPositive(reqs[i].rfc) /\ reqs[i].pc = "fetching"
                 /\ reqs'[i].pc = "failed") =>
                 /\ reqs'[i].error \in FailureDetails
                 /\ errors' = Append(errors, [req |-> i,
                                              message |-> "Error caught while downloading RFC",
                                              detail |-> reqs'[i].error])
                 /\ reqs'[i].promise = "fulfilled"
                 /\ ~InSteps(reqs'[i], "open") /\ ~InSteps(reqs'[i], "anchor")
                 /\ editors' = editors /\ active' = active
                 /\ files' = files /\ dirs' = dirs
                 /\ \A j \in DOMAIN reqs : j # i => reqs'[j] = reqs[j]
          /\ reqs[i].pc = "failed" => reqs'[i] = reqs[i]
          /\ (\A j \in DOMAIN reqs : ~(reqs[j].pc = "fetching" /\ reqs'[j].pc = "failed"))
                 => errors' = errors
      ]_vars

\* C5: a cache path is computed, a document is opened or a fetch is started
\* only when the parsed number N satisfies N > 0; zero, negative and
\* non-numeric numbers are declined with no effect.
C5_OnlyPositiveNumbersProceed ==
    \A i \in DOMAIN reqs :
        ~IsPositive(reqs[i].rfc) =>
            /\ reqs[i].pc = "declined"
            /\ reqs[i].path = NoPath
            /\ reqs[i].steps = <<>>

\* A step in which handleURI was called: the request it added.
Requested == Len(reqs') = Len(reqs) + 1
NewRequest == reqs'[Len(reqs')]

\* The request is for a number whose file is neither on local storage nor
\* open, asked for while a cache directory is set.
AbsentAndNotOpen(r) ==
    /\ rfcDirectory # <<>> /\ isFinite(r.rfc)
    /\ CachePath(r.rfc.val) \notin DOMAIN files
    /\ CachePath(r.rfc.val) \notin DOMAIN editors

\* C13: a request for an RFC whose file is absent and not open, made while
\* remote download is disabled, changes nothing: no file, no directory, no
\* fetch, no document, no error notification, then or later.
C13_DisabledDownloadChangesNothing ==
    [][/\ (Requested /\ AbsentAndNotOpen(NewRequest) /\ ~downloadEnabled) =>
             /\ files' = files /\ dirs' = dirs
             /\ editors' = editors /\ active' = active
             /\ errors' = errors
             /\ SubSeq(reqs', 1, Len(reqs)) = reqs
             /\ NewRequest.pc = "disabled"
             /\ NewRequest.steps = <<>> /\ NewRequest.url = <<>>
             /\ NewRequest.promise = "none"
       /\ \A i \in DOMAIN reqs : reqs[i].pc = "disabled" => reqs'[i] = reqs[i]
      ]_vars

\* RFC 7 was asked for with downloads disabled and an empty cache: nothing
\* is on local storage, nothing is open, nothing was notified.
C13_Witness ==
    /\ ~downloadEnabled
    /\ Len(reqs) = 1 /\ reqs[1].pc = "disabled" /\ reqs[1].rfc = Num(7)
    /\ files = NoFiles /\ dirs = {} /\ editors = NoEditors /\ errors = <<>>

StepCount(r, step) == Cardinality({k \in DOMAIN r.steps : r.steps[k] = step})

\* C15: requests for the same missing RFC that overlap are not serialised: a
\* request made while another is fetching the same path starts its own
\* fetch, no request is held back, cancelled or restarted by another one's
\* progress, and each fetch is made once.
C15_OverlappingRequestsBothFetch ==
    [][/\ (Requested /\ AbsentAndNotOpen(NewRequest) /\ downloadEnabled) =>
             /\ NewRequest.pc = "fetching"
             /\ NewRequest.path = CachePath(NewRequest.rfc.val)
             /\ SubSeq(reqs', 1, Len(reqs)) = reqs
       /\ \A i \in DOMAIN reqs :
             /\ StepCount(reqs'[i], "fetch") <= 1
             /\ StepCount(reqs'[i], "write") <= 1
             /\ reqs'[i] # reqs[i] =>
                    /\ \A j \in DOMAIN reqs : j # i => reqs'[j] = reqs[j]
                    /\ reqs[i].pc = "fetching" => reqs'[i].pc \in {"opening", "failed"}
                    /\ reqs[i].pc = "opening" => reqs'[i].pc = "done"
      ]_vars

\* Two requests for RFC 7 both fetched and both wrote rfc7.txt, the second
\* write landing on the first, and each went on to open the document.
C15_Witness ==
    /\ Len(reqs) = 2
    /\ reqs[1].path = reqs[2].path /\ reqs[1].rfc = Num(7)
    /\ \A i \in {1, 2} :
          /\ reqs[i].pc = "done"
          /\ LastSteps(reqs[i], 4) = <<"fetch", "write", "open", "anchor">>
    /\ files[reqs[1].path].by = 1

\* The editor a lone request has left: the document as opened, after the
\* fragment was applied to it.
AfterFragment(ed, fragment) ==
    ed = executeAnchorAction(fragment,
             [ed EXCEPT !.sel = Range(Point(0, 0), Point(0, 0)), !.scroll = NoScroll])

\* A lone request for `uri` has run to its end.
LoneDone(uri) ==
    /\ Len(reqs) = 1 /\ reqs[1].uri = uri /\ reqs[1].pc = "done"
    /\ reqs[1].path \in DOMAIN editors

\* C16: for rfc://<N>/<fragment> the text after the slash is the fragment
\* applied to the document, with the effect of rfc:<N>#<fragment>; a fragment
\* given as a URL fragment is applied likewise.
C16_PathFragmentIsApplied ==
    /\ LoneDone(RfcScheme \o <<"/", "/", "7", "/", "L", "2">>)
          => AfterFragment(editors[reqs[1].path], <<"L", "2">>)
    /\ LoneDone(RfcScheme \o <<"0", "0", "7", "#", "L", "2">>)
          => AfterFragment(editors[reqs[1].path], <<"L", "2">>)
    /\ LoneDone(<<".", "/">> \o RfcScheme \o <<"7", "#", "L", "2">>)
          => AfterFragment(editors[reqs[1].path], <<"L", "2">>)

(***************************************************************************)
(* expandPath, loadUserList and parseDSRecord.                             *)
(***************************************************************************)
\* line.split(":")
RECURSIVE splitOn(_, _)
splitOn(s, c) ==
    LET k == indexOf(s, c, 1)
    IN  IF k = 0 THEN <<s>>
        ELSE <<SubSeq(s, 1, k - 1)>> \o splitOn(SubSeq(s, k + 1, Len(s)), c)

\* fields[k], k counted from zero; undefined past the end.
fieldAt(fields, k) == IF k + 1 <= Len(fields) THEN fields[k + 1] ELSE Undefined

\* users[name] = record
putUser(users, name, record) ==
    [n \in DOMAIN users \cup {name} |-> IF n = name THEN record ELSE users[n]]

NoUsers == [n \in {} |-> <<>>]

\* The record loadUserList makes of a passwd line (the fields expandPath
\* and the listing go by: name, gecos, home, shell).
passwdRecord(fields) ==
    [name |-> fields[1], gecos |-> fieldAt(fields, 7),
     home |-> fieldAt(fields, 8), shell |-> fieldAt(fields, 9)]

\* The loop over the lines of /etc/passwd: users and userCount after it.
RECURSIVE readPasswd(_, _, _)
readPasswd(lines, users, userCount) ==
    IF lines = <<>> THEN [users |-> users, userCount |-> userCount]
    ELSE LET line == Head(lines)
         IN  IF indexOf(line, ":", 1) = 0 \/ (line # <<>> /\ line[1] = "#")
             THEN readPasswd(Tail(lines), users, userCount)
             ELSE LET fields == splitOn(line, ":")
                  IN  readPasswd(Tail(lines),
                                 putUser(users, fields[1], passwdRecord(fields)),
                                 userCount + 1)

\* el.textContent.trim().replace(/^dsAttrTypeStandard:/, "")
stripAttrPrefix(text) ==
    CASE text = "dsAttrTypeStandard:NFSHomeDirectory" -> "NFSHomeDirectory"
      [] text = "dsAttrTypeStandard:UserShell" -> "UserShell"
      [] text = "dsAttrTypeStandard:RealName" -> "RealName"
      [] text = "dsAttrTypeStandard:UniqueID" -> "UniqueID"
      [] text = "dsAttrTypeStandard:PrimaryGroupID" -> "PrimaryGroupID"
      [] OTHER -> text

NoKey == "(undefined)"

\* Array.from(el.children).map(el => el.textContent), then
\* if(value.length < 2) [value = null] = value
valueOf(el) ==
    LET texts == IF el.tag = "string" THEN <<>> ELSE el.children
    IN  IF Len(texts) >= 2 THEN texts
        ELSE IF texts = <<>> THEN Null ELSE texts[1]

\* user[key] = value, for the keys the record keeps.
setAttr(user, key, value) ==
    CASE key = "NFSHomeDirectory" -> [user EXCEPT !.home = value]
      [] key = "UserShell" -> [user EXCEPT !.shell = value]
      [] key = "RealName" -> [user EXCEPT !.gecos = value]
      [] OTHER -> user

\* The loop of parseDSRecord over the children of the record's dict.
RECURSIVE parseElements(_, _, _)
parseElements(els, user, key) ==
    IF els = <<>> THEN [threw |-> FALSE, error |-> "none", user |-> user]
    ELSE LET el == Head(els)
         IN  IF el.tag = "key"
             THEN IF key # NoKey
                  THEN [threw |-> TRUE, user |-> user,
                        error |-> "SyntaxError: <key> element found where value expected"]
                  ELSE parseElements(Tail(els), user, stripAttrPrefix(el.text))
             ELSE IF el.tag \notin {"string", "array"}
                  THEN [threw |-> TRUE, user |-> user,
                        error |-> "TypeError: Unsupported value type"]
                  ELSE IF key = NoKey \/ key = ""
                  THEN [threw |-> TRUE, user |-> user,
                        error |-> "SyntaxError: No key defined for value"]
                  ELSE parseElements(Tail(els), setAttr(user, key, valueOf(el)), NoKey)

\* parseDSRecord(source, userName)
parseDSRecord(source, userName) ==
    parseElements(source,
                  [name |-> userName, gecos |-> Undefined, home |-> Undefined,
                   shell |-> Undefined],
                  NoKey)

\* The loop over the users dscl lists: each one not yet known is looked up;
\* a lookup that exits with an error is logged and passed over, a record is
\* parsed, and a throw of parseDSRecord leaves the loop and loadUserList.
RECURSIVE readDscl(_, _, _, _)
readDscl(entries, users, userCount, logged) ==
    IF entries = <<>>
    THEN [threw |-> FALSE, error |-> "none", users |-> users,
          userCount |-> userCount, logged |-> logged]
    ELSE LET e == Head(entries)
         IN  IF e.user \in DOMAIN users
             THEN readDscl(Tail(entries), users, userCount, logged)
             ELSE IF e.status # 0
             THEN readDscl(Tail(entries), users, userCount,
                           Append(logged, IF e.stderr # "" THEN e.stderr
                                          ELSE "dscl: exited with error code"))
             ELSE IF e.stdout = <<>>
             THEN readDscl(Tail(entries), users, userCount, logged)
             ELSE LET parsed == parseDSRecord(e.stdout, e.user)
                  IN  IF parsed.threw
                      THEN [threw |-> TRUE, error |-> parsed.error, users |-> users,
                            userCount |-> userCount, logged |-> logged]
                      ELSE readDscl(Tail(entries), putUser(users, e.user, parsed.user),
                                    userCount + 1, logged)

\* loadUserList(): the mapping, or null when no record was counted.
loadUserList ==
    LET fromPasswd == IF system.hasPasswd THEN readPasswd(system.passwd, NoUsers, 0)
                      ELSE [users |-> NoUsers, userCount |-> 0]
        all == IF system.platform = "darwin"
               THEN readDscl(system.dscl, fromPasswd.users, fromPasswd.userCount, <<>>)
               ELSE [threw |-> FALSE, error |-> "none", users |-> fromPasswd.users,
                     userCount |-> fromPasswd.userCount, logged |-> <<>>]
    IN  [threw |-> all.threw, error |-> all.error, logged |-> all.logged,
         value |-> IF all.userCount > 0 THEN [kind |-> "object", users |-> all.users]
                   ELSE [kind |-> "null", users |-> NoUsers]]

\* normalize(path) on a path without . and .. segments: runs of slashes
\* become one.
RECURSIVE normalize(_)
normalize(path) ==
    IF Len(path) < 2 THEN path
    ELSE IF path[1] = "/" /\ path[2] = "/" THEN normalize(Tail(path))
    ELSE <<Head(path)>> \o normalize(Tail(path))

\* .replace(/\/+$/, "")
RECURSIVE dropTrailingSlashes(_)
dropTrailingSlashes(path) ==
    IF path # <<>> /\ path[Len(path)] = "/"
    THEN dropTrailingSlashes(SubSeq(path, 1, Len(path) - 1))
    ELSE path

\* join(a, b) of the path module, on texts.
pathJoin(a, b) ==
    IF b = <<>> THEN normalize(a) ELSE normalize(a \o <<"/">> \o b)

\* path.slice(from), from counted from zero, negative from the end.
sliceFrom(path, from) ==
    IF from < 0 THEN SubSeq(path, Max(1, Len(path) + from + 1), Len(path))
    ELSE SubSeq(path, from + 1, Len(path))

\* The name /^~(?!-|\+)([^/\\]+)/ captures; the empty text when the pattern
\* does not match.
RECURSIVE nameRun(_, _)
nameRun(path, from) ==
    IF from > Len(path) \/ path[from] \in {"/", BS} THEN 0
    ELSE 1 + nameRun(path, from + 1)

tildeUser(path) ==
    IF Len(path) >= 2 /\ path[1] = "~" /\ path[2] \notin {"-", "+"}
    THEN SubSeq(path, 2, 1 + nameRun(path, 2))
    ELSE <<>>

\* join(home, path.slice(path.indexOf("/")))
homeJoin(home, path) == pathJoin(home, sliceFrom(path, indexOf(path, "/", 1) - 1))

\* What a call of expandPath comes to: the value returned or the error
\* thrown, the user list it leaves, whether loadUserList ran, what it logged.
returned(value) ==
    [threw |-> FALSE, error |-> "none", value |-> value, userList |-> userList,
     loaded |-> FALSE, logged |-> <<>>]

\* The ~<name> branch of expandPath.
expandUser(path, user) ==
    LET needLoad == userList.kind # "object"
        load     == loadUserList
        list     == IF needLoad THEN load.value ELSE userList
        logged   == IF needLoad THEN load.logged ELSE <<>>
    IN  IF needLoad /\ load.threw
        THEN [threw |-> TRUE, error |-> load.error, value |-> <<>>,
              userList |-> userList, loaded |-> TRUE, logged |-> logged]
        ELSE IF list.kind = "null"
        THEN [threw |-> TRUE, error |-> "TypeError: cannot use 'in' on null",
              value |-> <<>>, userList |-> list, loaded |-> needLoad,
              logged |-> logged]
        ELSE [threw |-> FALSE, error |-> "none",
              value |-> IF user \in DOMAIN list.users /\ isDir(list.users[user].home)
                        THEN homeJoin(list.users[user].home, path)
                        ELSE path,
              userList |-> list, loaded |-> needLoad, logged |-> logged]

\* expandPath(path)
expandPath(path) ==
    IF path = <<>> THEN returned(<<>>)
    ELSE LET p == dropTrailingSlashes(normalize(path))
         IN  IF p = <<"~">> THEN returned(system.HOME)
             ELSE IF Len(p) >= 2 /\ p[1] = "~" /\ p[2] = "/"
             THEN returned(pathJoin(system.HOME, sliceFrom(p, 2)))
             ELSE IF tildeUser(p) # <<>> THEN expandUser(p, tildeUser(p))
             ELSE returned(p)

MaxCalls == 2

\* expandPath is called with a path.
ExpandPath(path) ==
    /\ Len(calls) < MaxCalls
    /\ \E r \in {expandPath(path)} :
          /\ userList' = r.userList
          /\ loads' = loads + (IF r.loaded THEN 1 ELSE 0)
          /\ console' = console \o r.logged
          /\ calls' = Append(calls, [path |-> path, threw |-> r.threw,
                                     error |-> r.error, value |-> r.value,
                                     loaded |-> r.loaded])
    /\ UNCHANGED <<system, editors, active, hist, rfcDirectory, downloadEnabled,
                   downloadSource, files, dirs, reqs, errors>>

\* Accounts: lines of /etc/passwd and answers of dscl.
RootLine ==
    <<"r", "o", "o", "t", ":", "*", ":", "0", ":", "0", ":", ":", "0", ":", "0",
      ":", "R", ":", "/", "r", ":", "/", "s">>
BobLine ==
    <<"b", "o", "b", ":", "x", ":", "1", ":", "1", ":", "B", ":", "/", "b", ":",
      "/", "s">>
CommentLine == <<"#", "c", ":">>

PasswdFiles == {<<>>, <<CommentLine, RootLine>>, <<RootLine, <<>>, BobLine>>}

Key(text) == [tag |-> "key", text |-> text, children |-> <<>>]
Values(tag, texts) == [tag |-> tag, text |-> "", children |-> texts]

GoodRecord(home) ==
    <<Key("dsAttrTypeStandard:NFSHomeDirectory"), Values("array", <<home>>),
      Key("dsAttrTypeStandard:UniqueID"), Values("array", <<<<"5">>>>),
      Key("dsAttrTypeStandard:UserShell"), Values("string", <<>>)>>

Answer(user, status, stderr, stdout) ==
    [user |-> user, status |-> status, stderr |-> stderr, stdout |-> stdout]

Amy == Answer(<<"a", "m", "y">>, 0, "", GoodRecord(<<"/", "a">>))
Zed == Answer(<<"z", "e", "d">>, 0, "", GoodRecord(<<"/", "z">>))

\* The record in the middle of a listing.
MiddleAnswers ==
    {Answer(<<"k">>, 1, "dscl: no such user", <<>>),
     Answer(<<"k">>, 1, "", <<>>),
     Answer(<<"k">>, 0, "", <<>>),
     Answer(<<"k">>, 0, "", <<Key("RealName"), Key("UserShell")>>),
     Answer(<<"k">>, 0, "", <<Values("array", <<<<"v">>>>)>>),
     Answer(<<"k">>, 0, "", <<Key("RealName"), Values("integer", <<>>)>>),
     Answer(<<"r", "o", "o", "t">>, 0, "", GoodRecord(<<"/", "q">>)),
     Answer(<<"k">>, 0, "", GoodRecord(<<"/", "k">>))}

Listings ==
    {<<Amy, m, Zed>> : m \in MiddleAnswers}
    \cup {<<Answer(<<"k">>, 1, "", <<>>)>>}

Systems ==
    {[platform |-> "linux", hasPasswd |-> hp, passwd |-> pw, dscl |-> <<>>,
      HOME |-> <<"/", "h">>] :
        hp \in BOOLEAN, pw \in PasswdFiles}
    \cup {[platform |-> "darwin", hasPasswd |-> TRUE, passwd |-> pw, dscl |-> ds,
           HOME |-> <<"/", "h">>] :
             pw \in PasswdFiles, ds \in Listings}

HomeDirs == {<<"/", "r">>, <<"/", "a">>, <<"/", "z">>, <<"/", "k">>}

PathInputs ==
    {<<>>, <<"~">>, <<"~", "/", "x">>, <<"/", "c", "/", "/", "d", "/">>,
     <<"~", "-">>, <<"~", "+", "/", "x">>,
     <<"~", "r", "o", "o", "t">>, <<"~", "r", "o", "o", "t", "/", "x">>,
     <<"~", "b", "o", "b">>, <<"~", "a", "m", "y", "/", "x">>,
     <<"~", "z", "e", "d">>, <<"~", "n", "o">>}

InitPath ==
    /\ system \in {sy \in Systems : sy.hasPasswd \/ sy.passwd = <<>>}
    /\ dirs \in {{}, HomeDirs}
    /\ userList = [kind |-> "undefined", users |-> NoUsers]
    /\ loads = 0
    /\ calls = <<>>
    /\ console = <<>>
    /\ editors = NoEditors
    /\ active = NoPath
    /\ hist = <<>>
    /\ rfcDirectory = DefaultDirectory
    /\ downloadEnabled = TRUE
    /\ downloadSource = DefaultSource
    /\ files = NoFiles
    /\ reqs = <<>>
    /\ errors = <<>>

NextPath == \E path \in PathInputs : ExpandPath(path)

SpecPath == InitPath /\ [][NextPath]_vars

(***************************************************************************)
(* The cache-directory setting changes while requests are in flight.       *)
(***************************************************************************)

\* The observer of language-rfc.rfcDirectory: rfcDirectory = expandPath(value).
\* An error thrown by expandPath leaves the observer before the assignment.
SetDirectory(value) ==
    /\ \E r \in {expandPath(value)} :
          /\ rfcDirectory' = IF r.threw THEN rfcDirectory ELSE r.value
          /\ rfcDirectory' # rfcDirectory
          /\ userList' = r.userList
          /\ loads' = loads + (IF r.loaded THEN 1 ELSE 0)
          /\ console' = console \o r.logged
    /\ UNCHANGED <<system, calls, editors, active, hist, downloadEnabled,
                   downloadSource, files, dirs, reqs, errors>>

\* Values of the setting: empty, the default, a second directory written
\* with a trailing slash, a directory under the home directory.
DirectorySettings ==
    {<<>>, DefaultDirectory, <<"/", "v", "/">>, <<"~", "/", "r">>}

DirectoryURIs ==
    {RfcScheme \o <<"7">>, RfcScheme \o <<"0", "#", "L", "2">>}

InitDirectory ==
    /\ editors = NoEditors
    /\ active = NoPath
    /\ hist = <<>>
    /\ rfcDirectory = DefaultDirectory
    /\ downloadEnabled = TRUE
    /\ downloadSource = DefaultSource
    /\ files = NoFiles
    /\ dirs = {}
    /\ reqs = <<>>
    /\ errors = <<>>
    /\ PathIdle

NextDirectory ==
    \/ \E uri \in DirectoryURIs : HandleURI(uri)
    \/ \E i \in 1..MaxReq : FetchResolve(i)
    \/ \E i \in 1..MaxReq : FetchReject(i)
    \/ \E i \in 1..MaxReq : WriteFail(i)
    \/ \E i \in 1..MaxReq : OpenResolve(i)
    \/ \E value \in DirectorySettings : SetDirectory(value)

SpecDirectory == InitDirectory /\ [][NextDirectory]_vars

\* ---------------------------------------------------------------------------
\* Path claims
\* ---------------------------------------------------------------------------

\* The path reads ~<name> or ~<name>/<rest>, the name not starting with - or +.
NamesUser(path) ==
    /\ Len(path) >= 2
    /\ path[1] = "~"
    /\ path[2] \notin {"-", "+", "/"}

\* The name of a path that names a user, and what follows it.
NameOf(path) ==
    IF indexOf(path, "/", 1) = 0 THEN SubSeq(path, 2, Len(path))
    ELSE SubSeq(path, 2, indexOf(path, "/", 1) - 1)
RestOf(path) ==
    IF indexOf(path, "/", 1) = 0 THEN <<>>
    ELSE SubSeq(path, indexOf(path, "/", 1) + 1, Len(path))

\* The user list was built and is a mapping, or was built and is null.
ListIsMapping == userList.kind = "object"
ListIsNull == userList.kind = "null"

\* The named user is in the list and the home directory is on disk.
CanSubstitute(path) ==
    /\ ListIsMapping
    /\ NameOf(path) \in DOMAIN userList.users
    /\ userList.users[NameOf(path)].home \in dirs

\* C17: for a path ~<name>[/rest], when the name is not in the user list,
\* when the list is null, or when the user's home directory is not on disk,
\* expandPath raises no error and returns the normalized path unexpanded.
C17_NoSubstitutionReturnsPath ==
    \A i \in DOMAIN calls :
        (/\ NamesUser(calls[i].path)
         /\ ListIsMapping \/ ListIsNull
         /\ ~CanSubstitute(calls[i].path))
        => /\ ~calls[i].threw
           /\ calls[i].value = dropTrailingSlashes(normalize(calls[i].path))

\* C18: for a known user whose home directory is on disk, expandPath("~name")
\* returns exactly the home directory and expandPath("~name/rest") returns the
\* home directory joined with rest.
C18_KnownUserExpandsToHome ==
    \A i \in DOMAIN calls :
        (NamesUser(calls[i].path) /\ CanSubstitute(calls[i].path) /\ ~calls[i].threw)
        => calls[i].value =
              IF RestOf(calls[i].path) = <<>>
              THEN userList.users[NameOf(calls[i].path)].home
              ELSE userList.users[NameOf(calls[i].path)].home
                      \o <<"/">> \o RestOf(calls[i].path)

\* C19: once loadUserList has returned (a mapping or null), no later call of
\* expandPath runs it again and the stored result is never changed.
C19_UserListBuiltOnce ==
    [][(ListIsMapping \/ ListIsNull) => (loads' = loads /\ userList' = userList)]_vars

\* The payload of a directory-service record alternates keys and values of a
\* supported type.
WellFormed(els) ==
    /\ Len(els) % 2 = 0
    /\ \A k \in DOMAIN els :
          IF k % 2 = 1 THEN els[k].tag = "key"
          ELSE els[k].tag \in {"string", "array"}

FailedRecord(e) == e.status # 0 \/ (e.stdout # <<>> /\ ~WellFormed(e.stdout))
GoodRecordOf(e) == e.status = 0 /\ e.stdout # <<>> /\ WellFormed(e.stdout)

\* C20: when the user list is built from the directory service, a record that
\* fails (the lookup exits with an error, or its payload is malformed) is
\* logged and skipped, and every good record of the listing, before or after
\* the failed one, is in the mapping.
C20_FailedRecordIsLoggedAndSkipped ==
    \A i \in DOMAIN calls :
        (calls[i].loaded /\ system.platform = "darwin")
        => /\ (\E k \in DOMAIN system.dscl : FailedRecord(system.dscl[k]))
                 => console # <<>>
           /\ \A k \in DOMAIN system.dscl :
                 GoodRecordOf(system.dscl[k])
                 => /\ ListIsMapping
                    /\ system.dscl[k].user \in DOMAIN userList.users

\* ---------------------------------------------------------------------------
\* Directory claims
\* ---------------------------------------------------------------------------

\* A step in which request i wrote its file, and one in which it opened it.
Wrote(i) == StepCount(reqs'[i], "write") = StepCount(reqs[i], "write") + 1
Opened(i) == StepCount(reqs'[i], "open") = StepCount(reqs[i], "open") + 1

\* The files whose content is not what it was before the step.
Written == {q \in DOMAIN files' : q \notin DOMAIN files \/ files'[q] # files[q]}

\* The documents that are new or not what they were before the step.
Touched == {q \in DOMAIN editors' : q \notin DOMAIN editors \/ editors'[q] # editors[q]}

\* C21: a request's target path is computed from the cache directory when
\* the request starts and stays what it is; the request writes the fetched
\* bytes to that path and opens the document from that path, whatever the
\* setting has become in between; a change of the setting touches no request,
\* no file and no document.
C21_TargetPathFixedAtStart ==
    [][/\ (Requested /\ rfcDirectory # <<>> /\ isFinite(NewRequest.rfc)) =>
             NewRequest.path = CachePath(NewRequest.rfc.val)
       /\ \A i \in DOMAIN reqs :
             /\ reqs'[i].path = reqs[i].path
             /\ Wrote(i) => /\ Written = {reqs[i].path}
                            /\ files'[reqs[i].path].bytes = reqs'[i].bytes
             /\ Opened(i) => /\ Touched \subseteq {reqs[i].path}
                             /\ reqs[i].path \in DOMAIN editors'
                             /\ active' = reqs[i].path
       /\ rfcDirectory' # rfcDirectory =>
             /\ reqs' = reqs /\ files' = files /\ dirs' = dirs
             /\ editors' = editors /\ active' = active
      ]_vars

\* RFC 7 was asked for under the default directory and the setting became
\* /v while it was being fetched: the file was written under the default
\* directory and opened from there, and nothing is under /v but the file of
\* a request made after the change.
C21_Witness ==
    /\ rfcDirectory = <<"/", "v">>
    /\ Len(reqs) = 2
    /\ Downloaded(reqs[1]) /\ reqs[1].path.dir = DefaultDirectory
    /\ active = reqs[1].path
    /\ reqs[2].path.dir = <<"/", "v">> /\ reqs[2].rfc = reqs[1].rfc
    /\ reqs[2].pc = "fetching"
    /\ DOMAIN files = {reqs[1].path}

\* ---------------------------------------------------------------------------
\* Walk claims
\* ---------------------------------------------------------------------------

\* The rows a selection spans: its top row and its bottom row.
TopRow(ed) == SetMin({ed.sel.start.row, ed.sel.end.row})
BottomRow(ed) == SetMax({ed.sel.start.row, ed.sel.end.row})

\* The cursor is a point at column 0 of the row.
CursorOn(ed, row) == ed.sel = Range(Point(row, 0), Point(row, 0))

\* How many stops lie above a row: the boundary lines strictly between the
\* first row and it, and the first row.
StopsAbove(lines, row) ==
    IF row <= 0 THEN 0
    ELSE Cardinality({b \in BoundarySet(lines) : 0 < b /\ b < row}) + 1

\* prevPage applied n times.
RECURSIVE prevPageTimes(_, _)
prevPageTimes(n, ed) == IF n = 0 THEN ed ELSE prevPageTimes(n - 1, prevPage(ed))

\* C22: nextPage leaves the selection where it was or puts the cursor on a
\* row not above its bottom row; prevPage leaves the selection where it was
\* or puts the cursor on a row not below its top row, one stop nearer to the
\* first row; from any selection, prevPage repeated (boundary lines + 1)
\* times has the top row at row 0, and once more leaves it there.
C22_PagingIsMonotoneAndReachesTop ==
    /\ (Len(hist) >= 1 /\ lastCmd.op = "nextPage") =>
           \/ cur.sel = lastCmd.pre.sel
           \/ /\ cur.sel.start = cur.sel.end
              /\ TopRow(cur) >= BottomRow(lastCmd.pre)
    /\ (Len(hist) >= 1 /\ lastCmd.op = "prevPage") =>
           /\ \/ cur.sel = lastCmd.pre.sel
              \/ /\ cur.sel.start = cur.sel.end
                 /\ BottomRow(cur) <= TopRow(lastCmd.pre)
           /\ StopsAbove(cur.lines, TopRow(cur))
                 = Max(0, StopsAbove(cur.lines, TopRow(lastCmd.pre)) - 1)
           /\ TopRow(lastCmd.pre) = 0 => TopRow(cur) = 0
    /\ StopsAbove(cur.lines, TopRow(cur)) <= Cardinality(BoundarySet(cur.lines)) + 1
    /\ \E n \in {Cardinality(BoundarySet(cur.lines)) + 1} :
           /\ TopRow(prevPageTimes(n, cur)) = 0
           /\ TopRow(prevPageTimes(n + 1, cur)) = 0

\* A walk up a document of two pages: from below the boundary line prevPage
\* went to the boundary line and a second prevPage went to the first row.
C22_Witness ==
    /\ Len(hist) = 2
    /\ prevCmd.op = "prevPage" /\ lastCmd.op = "prevPage"
    /\ Cardinality(BoundarySet(cur.lines)) = 1
    /\ TopRow(prevCmd.pre) > TopRow(lastCmd.pre)
    /\ TopRow(lastCmd.pre) > 0
    /\ lineTextForBufferRow(cur, TopRow(lastCmd.pre)) = FFLine
    /\ CursorOn(cur, 0)

====
